---- MODULE Spec2Model ----
(***************************************************************************)
(* Model of review.py: the pull-request review pipeline.                   *)
(*                                                                         *)
(* The module level reads the configuration from the environment, main()   *)
(* checks it, builds a reviewer, fetches the diff of a pull request        *)
(* (PRReviewer.get_pr_changes), sends it to a chat-completion provider     *)
(* (AIReviewer.get_review through PRReviewer.get_ai_review) and prints the *)
(* answer.  A run of the pipeline is modelled per element of Runs; the two *)
(* network calls are the suspension points, so each is split into a send   *)
(* and a receive step and runs interleave there.                           *)
(*                                                                         *)
(* Text is a sequence of tokens.  A Python value returned by get_review is *)
(* a record [kind, val]: kind "str" with the text, or kind "None".         *)
(***************************************************************************)
EXTENDS Integers, Sequences, FiniteSets, TLC

VARIABLES
    missing,      \* environment variables that are unset
    loaded,       \* module import: "init", "ok", or "fault" (import raised)
    pc,           \* per run: position in main()
    prId,         \* per run: pr_id argument of get_pr_changes
    provider,     \* per run: the AIReviewer variant constructed
    nFetch,       \* per run: number of requests.get calls issued
    fetchResp,    \* per run: what the diff endpoint answered
    changes,      \* per run: value returned by get_pr_changes
    nCompletions, \* per run: number of chat.completions.create calls issued
    provReq,      \* per run: the chat-completion request sent
    provResp,     \* per run: what the provider answered
    review,       \* per run: value returned by get_ai_review
    final,        \* per run: the review main printed between the rules
    out           \* per run: the other lines printed

vars == <<missing, loaded, pc, prId, provider, nFetch, fetchResp, changes,
          nCompletions, provReq, provResp, review, final, out>>

(***************************************************************************)
(* Bounds                                                                  *)
(***************************************************************************)
MaxMissing == 1       \* at most this many environment variables are unset
MaxComments == 2      \* at most this many comment entries in a review text

\* Two passes of the pipeline of main (lines 185-212) over the same module
\* constants, each with its own pr_id argument for get_pr_changes.
Runs == {"r1", "r2"}
PrIds == {"pr1", "pr2"}
Providers == {"OpenRouter", "Nebius"}

(***************************************************************************)
(* Configuration (module level and main)                                   *)
(***************************************************************************)
required_vars ==
    {"BITBUCKET_URL", "BITBUCKET_USERNAME", "BITBUCKET_PASSWORD",
     "BITBUCKET_PROJECT", "BITBUCKET_REPOSITORY"}

ApiKeyVar(p) == IF p = "OpenRouter" THEN "OPENROUTER_API_KEY" ELSE "NEBIUS_API_KEY"

EnvVars == required_vars \cup {"BITBUCKET_PR_ID"} \cup {ApiKeyVar(p) : p \in Providers}

\* int(os.getenv('BITBUCKET_PR_ID')) at import: int(None) raises TypeError,
\* outside any try block.
ImportRaises(unset) == "BITBUCKET_PR_ID" \in unset

\* missing_vars = [var for var in required_vars if not os.getenv(var)]
missing_vars(unset) == required_vars \cap unset

\* AIReviewer.__init__: "if not api_key: raise ValueError(...)"
ReviewerInitRaises(p, unset) == ApiKeyVar(p) \in unset

(***************************************************************************)
(* Python values                                                           *)
(***************************************************************************)
NoneVal == [kind |-> "None", val |-> <<>>]
Str(s) == [kind |-> "str", val |-> s]
EmptyStr == Str(<<>>)

\* Python truthiness of a str-or-None value
Truthy(v) == v.kind = "str" /\ v.val # <<>>

(***************************************************************************)
(* REVIEW_PROMPT and str.format                                            *)
(***************************************************************************)
\* The template: literal text ("text"), the doubled braces that surround the
\* JSON example, and the one replacement field between backticks.
REVIEW_PROMPT ==
    <<"text", "{", "{", "text", "}", "}", "text", "tick", "{", "diff_content", "}", "tick">>

RECURSIVE Unescape(_)
\* what str.format does to literal text: "{{" becomes "{", "}}" becomes "}"
Unescape(t) ==
    IF t = <<>> THEN <<>>
    ELSE IF Len(t) >= 2 /\ t[1] \in {"{", "}"} /\ t[2] = t[1]
         THEN <<t[1]>> \o Unescape(SubSeq(t, 3, Len(t)))
         ELSE <<t[1]>> \o Unescape(Tail(t))

RECURSIVE Substitute(_, _)
\* textual replacement of the field by the value, with no unescaping
Substitute(t, value) ==
    IF t = <<>> THEN <<>>
    ELSE IF Len(t) >= 3 /\ t[1] = "{" /\ t[2] = "diff_content" /\ t[3] = "}"
         THEN value \o Substitute(SubSeq(t, 4, Len(t)), value)
         ELSE <<t[1]>> \o Substitute(Tail(t), value)

\* A formatter that pastes the value into the template first and formats the
\* result: braces of the value are then read as template braces.
FormatPasteFirst(t, value) == Unescape(Substitute(t, value))

RECURSIVE Format(_, _)
\* REVIEW_PROMPT.format(diff_content=value): one left-to-right scan; doubled
\* braces give one brace, the field gives the value as it is.
Format(t, value) ==
    IF t = <<>> THEN <<>>
    ELSE IF Len(t) >= 2 /\ t[1] \in {"{", "}"} /\ t[2] = t[1]
         THEN <<t[1]>> \o Format(SubSeq(t, 3, Len(t)), value)
    ELSE IF Len(t) >= 3 /\ t[1] = "{" /\ t[2] = "diff_content" /\ t[3] = "}"
         THEN value \o Format(SubSeq(t, 4, Len(t)), value)
         ELSE <<t[1]>> \o Format(Tail(t), value)

\* The template as rendered, before and after the field
PromptHead == <<"text", "{", "text", "}", "text", "tick">>
PromptTail == <<"tick">>

(***************************************************************************)
(* The diff endpoint                                                       *)
(***************************************************************************)
NoResp == [kind |-> "none", status |-> 0, body |-> <<>>]

\* Text of the diff the host holds for pull request p: empty, or text that
\* names p (with braces, as any source diff may have).
DiffBodies(p) == {<<>>, <<p>>, <<"{", "{", p, "}">>}

\* What requests.get can give for pull request p: a response with a status
\* and a body, or a network-level exception (kind "transport").
FetchResponses(p) ==
    [kind : {"http"}, status : {200}, body : DiffBodies(p)]
    \cup [kind : {"http"}, status : {300}, body : {<<>>, <<p>>}]
    \cup [kind : {"http"}, status : {404, 500}, body : {<<"error", p>>}]
    \cup {[kind |-> "transport", status |-> 0, body |-> <<>>]}

\* response.raise_for_status(): requests raises HTTPError for 4xx and 5xx
\* and for nothing else.
RaisesForStatus(status) == status >= 400 /\ status < 600

\* get_pr_changes without the try block's early exit: the body is returned
\* whatever the status.
GetPrChangesNoRaise(resp) == IF resp.kind = "http" THEN resp.body ELSE <<>>

\* get_pr_changes reporting the exception as its value
GetPrChangesErrText(resp) ==
    IF resp.kind = "http" /\ ~RaisesForStatus(resp.status) THEN resp.body
    ELSE <<"error">>

\* PRReviewer.get_pr_changes: response.text, or "" on any exception
GetPrChanges(resp) ==
    IF resp.kind = "http" /\ ~RaisesForStatus(resp.status) THEN resp.body
    ELSE <<>>

\* the lines get_pr_changes prints
GetPrChangesLog(resp) ==
    IF resp.kind = "http" /\ ~RaisesForStatus(resp.status) THEN <<>>
    ELSE IF resp.kind = "http" THEN <<"Error fetching PR changes: HTTPError">>
    ELSE <<"Error fetching PR changes: ConnectionError">>

(***************************************************************************)
(* The chat-completion provider                                            *)
(***************************************************************************)
NoReq == [model |-> "none", max_tokens |-> 0, role |-> "none", content |-> <<>>]

\* The request of get_review: one user message holding the formatted prompt
ChatRequest(p, diff_content) ==
    [model |-> IF p = "OpenRouter" THEN "deepseek/deepseek-r1:free"
               ELSE "deepseek-ai/DeepSeek-R1",
     max_tokens |-> IF p = "OpenRouter" THEN 0 ELSE 8192,
     role |-> "user",
     content |-> Format(REVIEW_PROMPT, diff_content)]

\* A comment entry of the JSON the prompt asks for.  line_number is the JSON
\* value as written; complete says whether all three keys are present.
Entries(files) ==
    [file : files, line_number : {"5", "abc"}, complete : {TRUE}]
    \cup [file : files, line_number : {"5"}, complete : {FALSE}]

SeqsUpTo(S, n) == UNION {[1..k -> S] : k \in 1..n}

\* the pull requests a prompt text names
FilesIn(text) == {text[i] : i \in DOMAIN text} \cap PrIds

NoProvResp ==
    [kind |-> "none", exc |-> "", choices |-> 0, content |-> NoneVal]

\* What chat.completions.create can give for a request: an exception, a
\* completion without choices, or a completion whose first message has no
\* content attribute ("absent"), content None, or content text.
ProviderErrors ==
    [kind : {"error"}, exc : {"APIConnectionError", "APIStatusError"},
     choices : {0}, content : {NoneVal}]

ProviderCompletions(req) ==
    [kind : {"completion"}, exc : {""}, choices : {0}, content : {NoneVal}]
    \cup [kind : {"completion"}, exc : {""}, choices : {1},
          content : {[kind |-> "absent", val |-> <<>>], NoneVal, EmptyStr}
                    \cup {Str(s) : s \in SeqsUpTo(Entries(FilesIn(req.content)), MaxComments)}]

\* get_review returning the exception text instead of ""
GetReviewErrText(resp) ==
    IF resp.kind = "error" THEN Str(<<resp.exc>>)
    ELSE IF resp.choices = 0 THEN Str(<<"IndexError">>)
    ELSE IF resp.content.kind # "absent" THEN resp.content
    ELSE EmptyStr

\* get_review answering None where the message has no content attribute
GetReviewNoneForAbsent(resp) ==
    IF resp.kind = "error" THEN EmptyStr
    ELSE IF resp.choices = 0 THEN EmptyStr
    ELSE IF resp.content.kind # "absent" THEN resp.content
    ELSE NoneVal

\* OpenRouterReviewer.get_review and NebiusReviewer.get_review, after the
\* request: an exception of create(), or of choices[0] on an empty list, is
\* caught and gives ""; a message with a content attribute gives that
\* attribute (None included); one without gives "".
GetReview(resp) ==
    IF resp.kind = "error" THEN EmptyStr
    ELSE IF resp.choices = 0 THEN EmptyStr
    ELSE IF resp.content.kind # "absent" THEN resp.content
    ELSE EmptyStr

\* the lines get_review prints after the request
GetReviewLog(resp) ==
    IF resp.kind = "error" /\ resp.exc = "APIConnectionError"
    THEN <<"Error getting review: APIConnectionError">>
    ELSE IF resp.kind = "error" THEN <<"Error getting review: APIStatusError">>
    ELSE IF resp.choices = 0 THEN <<"Error getting review: IndexError">>
    ELSE IF resp.content.kind # "absent" THEN <<>>
    ELSE <<"No content in API response">>

\* the line get_ai_review prints
GetAiReviewLog(result) ==
    IF Truthy(result) THEN <<"Successfully received AI review">>
    ELSE <<"Received empty review response">>

\* a pipeline keeping the fetched diff in one place shared by all runs: the
\* diff another run fetched is the one that is sent
DiffArgShared(ch, r) ==
    LET others == {q \in Runs : q # r /\ ch[q] # <<>>}
    IN  IF others = {} THEN ch[r] ELSE ch[CHOOSE q \in others : TRUE]

\* main: "review = reviewer.get_ai_review(changes)", changes being the local
\* variable of this run
DiffArg(ch, r) == ch[r]

\* main that goes on after a failed fetch
FetchFailedNever(ch) == FALSE

\* main: "if not changes"
FetchFailed(ch) == ch = <<>>

\* main that goes on after an empty review
ReviewFailedNever(rv) == FALSE

\* main: "if not review"
ReviewFailed(rv) == ~Truthy(rv)

\* main printing only the first comment of the review
FinalReviewFirstOnly(rv) == Str(SubSeq(rv.val, 1, 1))

\* what main prints as the final review: print(review), the value as it is
FinalReview(rv) == rv

(***************************************************************************)
(* The program                                                             *)
(***************************************************************************)
Init ==
    /\ missing \in {m \in SUBSET EnvVars : Cardinality(m) <= MaxMissing}
    /\ loaded = "init"
    /\ pc = [r \in Runs |-> "start"]
    /\ prId \in [Runs -> PrIds]
    /\ provider = [r \in Runs |-> "none"]
    /\ nFetch = [r \in Runs |-> 0]
    /\ fetchResp = [r \in Runs |-> NoResp]
    /\ changes = [r \in Runs |-> <<>>]
    /\ nCompletions = [r \in Runs |-> 0]
    /\ provReq = [r \in Runs |-> NoReq]
    /\ provResp = [r \in Runs |-> NoProvResp]
    /\ review = [r \in Runs |-> NoneVal]
    /\ final = [r \in Runs |-> NoneVal]
    /\ out = [r \in Runs |-> <<>>]

\* Import of the module: lines 10-18 run once, before main.
LoadModule ==
    /\ loaded = "init"
    /\ loaded' = IF ImportRaises(missing) THEN "fault" ELSE "ok"
    /\ UNCHANGED <<missing, pc, prId, provider, nFetch, fetchResp, changes,
                   nCompletions, provReq, provResp, review, final, out>>

\* main, up to the call of get_pr_changes: the check of the environment and
\* the construction of the reviewer; a ValueError raised there is caught by
\* main's except clause and printed.  Line 185 constructs NebiusReviewer and
\* line 184 keeps OpenRouterReviewer as the alternative: either is taken.
MainStart(r) ==
    /\ loaded = "ok"
    /\ pc[r] = "start"
    /\ \E p \in Providers :
         IF missing_vars(missing) # {}
         THEN /\ out' = [out EXCEPT ![r] =
                           @ \o <<"Error in main: Missing required environment variables">>]
              /\ pc' = [pc EXCEPT ![r] = "done"]
              /\ UNCHANGED provider
         ELSE IF ReviewerInitRaises(p, missing)
         THEN /\ out' = [out EXCEPT ![r] =
                           @ \o <<"Error in main: API key must be provided">>]
              /\ pc' = [pc EXCEPT ![r] = "done"]
              /\ UNCHANGED provider
         ELSE /\ out' = [out EXCEPT ![r] = @ \o <<"Fetching PR changes...">>]
              /\ pc' = [pc EXCEPT ![r] = "fetch"]
              /\ provider' = [provider EXCEPT ![r] = p]
    /\ UNCHANGED <<missing, loaded, prId, nFetch, fetchResp, changes,
                   nCompletions, provReq, provResp, review, final>>

\* get_pr_changes: requests.get is issued
FetchSend(r) ==
    /\ pc[r] = "fetch"
    /\ nFetch' = [nFetch EXCEPT ![r] = @ + 1]
    /\ pc' = [pc EXCEPT ![r] = "fetching"]
    /\ UNCHANGED <<missing, loaded, prId, provider, fetchResp, changes,
                   nCompletions, provReq, provResp, review, final, out>>

\* The rest of get_pr_changes once requests.get has answered with resp, and
\* main's test of the value returned.
FetchDone(r, resp) ==
    /\ fetchResp' = [fetchResp EXCEPT ![r] = resp]
    /\ changes' = [changes EXCEPT ![r] = GetPrChanges(resp)]
    /\ IF FetchFailed(GetPrChanges(resp))
       THEN /\ out' = [out EXCEPT ![r] =
                         @ \o GetPrChangesLog(resp) \o <<"Failed to fetch PR changes">>]
            /\ pc' = [pc EXCEPT ![r] = "done"]
       ELSE /\ out' = [out EXCEPT ![r] =
                         @ \o GetPrChangesLog(resp) \o <<"Successfully fetched PR changes">>]
            /\ pc' = [pc EXCEPT ![r] = "review"]
    /\ UNCHANGED <<missing, loaded, prId, provider, nFetch,
                   nCompletions, provReq, provResp, review, final>>

\* requests.get returns a response
FetchRecvHttp(r) ==
    /\ pc[r] = "fetching"
    /\ \E resp \in FetchResponses(prId[r]) :
         /\ resp.kind = "http"
         /\ FetchDone(r, resp)

\* requests.get raises a network-level exception
FetchRecvTransport(r) ==
    /\ pc[r] = "fetching"
    /\ \E resp \in FetchResponses(prId[r]) :
         /\ resp.kind = "transport"
         /\ FetchDone(r, resp)

\* get_ai_review -> get_review: the prompt is formatted and
\* chat.completions.create is issued
ProviderSend(r) ==
    /\ pc[r] = "review"
    /\ provReq' = [provReq EXCEPT ![r] = ChatRequest(provider[r], DiffArg(changes, r))]
    /\ nCompletions' = [nCompletions EXCEPT ![r] = @ + 1]
    /\ out' = [out EXCEPT ![r] = @ \o <<"Sending request to API...">>]
    /\ pc' = [pc EXCEPT ![r] = "reviewing"]
    /\ UNCHANGED <<missing, loaded, prId, provider, nFetch, fetchResp, changes,
                   provResp, review, final>>

\* The rest of get_review once create() has answered with resp, the rest of
\* get_ai_review, and main's test and print of the value returned.
ProviderDone(r, resp) ==
    /\ provResp' = [provResp EXCEPT ![r] = resp]
    /\ review' = [review EXCEPT ![r] = GetReview(resp)]
    /\ IF ReviewFailed(GetReview(resp))
       THEN /\ out' = [out EXCEPT ![r] =
                         @ \o GetReviewLog(resp) \o GetAiReviewLog(GetReview(resp))
                           \o <<"Failed to get AI review">>]
            /\ UNCHANGED final
       ELSE /\ out' = [out EXCEPT ![r] =
                         @ \o GetReviewLog(resp) \o GetAiReviewLog(GetReview(resp))
                           \o <<"Final AI Review:">>]
            /\ final' = [final EXCEPT ![r] = FinalReview(GetReview(resp))]
    /\ pc' = [pc EXCEPT ![r] = "done"]
    /\ UNCHANGED <<missing, loaded, prId, provider, nFetch, fetchResp, changes,
                   nCompletions, provReq>>

\* create() returns a completion
ProviderRecvCompletion(r) ==
    /\ pc[r] = "reviewing"
    /\ \E resp \in ProviderCompletions(provReq[r]) : ProviderDone(r, resp)

\* create() raises
ProviderRecvError(r) ==
    /\ pc[r] = "reviewing"
    /\ \E resp \in ProviderErrors : ProviderDone(r, resp)

Next ==
    \/ LoadModule
    \/ \E r \in Runs : MainStart(r)
    \/ \E r \in Runs : FetchSend(r)
    \/ \E r \in Runs : FetchRecvHttp(r)
    \/ \E r \in Runs : FetchRecvTransport(r)
    \/ \E r \in Runs : ProviderSend(r)
    \/ \E r \in Runs : ProviderRecvCompletion(r)
    \/ \E r \in Runs : ProviderRecvError(r)

Spec == Init /\ [][Next]_vars

(***************************************************************************)
(* Vocabulary of the properties                                            *)
(***************************************************************************)
Last(s) == s[Len(s)]
Printed(r, line) == \E i \in DOMAIN out[r] : out[r][i] = line
Other(r) == CHOOSE q \in Runs : q # r

Fetched(r) == fetchResp[r].kind # "none"
Answered(r) == provResp[r].kind # "none"
PromptBuilt(r) == provReq[r] # NoReq

\* the causes of a failed fetch
RemoteError(r) == fetchResp[r].kind = "http" /\ RaisesForStatus(fetchResp[r].status)
TransportError(r) == fetchResp[r].kind = "transport"
EmptyDiff(r) ==
    /\ fetchResp[r].kind = "http"
    /\ fetchResp[r].status \in 200..299
    /\ fetchResp[r].body = <<>>
Non2xx(r) == fetchResp[r].kind = "http" /\ fetchResp[r].status \notin 200..299

\* the causes of a failed review call
ProviderError(r) ==
    \/ provResp[r].kind = "error"
    \/ provResp[r].kind = "completion" /\ provResp[r].choices = 0
EmptyResponse(r) ==
    /\ provResp[r].kind = "completion"
    /\ provResp[r].choices = 1
    /\ ~Truthy(provResp[r].content)

\* how a finished run ended, by the last line main printed
StoppedAtFetch(r) ==
    pc[r] = "done" /\ out[r] # <<>> /\ Last(out[r]) = "Failed to fetch PR changes"
StoppedAtProvider(r) ==
    pc[r] = "done" /\ out[r] # <<>> /\ Last(out[r]) = "Failed to get AI review"
StoppedAtConfig(r) ==
    /\ pc[r] = "done" /\ out[r] # <<>>
    /\ Last(out[r]) \in {"Error in main: Missing required environment variables",
                         "Error in main: API key must be provided"}
Succeeded(r) == pc[r] = "done" /\ out[r] # <<>> /\ Last(out[r]) = "Final AI Review:"
\* a run fails unless the provider answered with textual content
GotReviewText(r) ==
    /\ provResp[r].kind = "completion"
    /\ provResp[r].choices = 1
    /\ Truthy(provResp[r].content)
Failed(r) == pc[r] = "done" /\ ~GotReviewText(r)

StageLines ==
    {"Failed to fetch PR changes", "Failed to get AI review",
     "Error in main: Missing required environment variables",
     "Error in main: API key must be provided"}

Cause(r) ==
    IF ~Fetched(r) THEN "ConfigurationError"
    ELSE IF RemoteError(r) THEN "RemoteError"
    ELSE IF TransportError(r) THEN "TransportError"
    ELSE IF ~Answered(r) THEN "EmptyDiff"
    ELSE IF ProviderError(r) THEN "ProviderError"
    ELSE "EmptyResponse"

\* What main holds when it stops: the stage it stopped at and the values
\* the stages returned to it.
FailureValue(r) == <<Last(out[r]), changes[r], review[r]>>

(***************************************************************************)
(* C1                                                                      *)
(***************************************************************************)
\* C1 as stated: a run whose diff fetch got a non-2xx status has stopped at
\* the fetch stage, has built no prompt and has made no provider call.
C1_Non2xxStopsAtFetch ==
    \A r \in Runs :
        Non2xx(r) => StoppedAtFetch(r) /\ ~PromptBuilt(r) /\ nCompletions[r] = 0

\* C1 amended: a run whose diff fetch got a 4xx or 5xx status has stopped at
\* the fetch stage with the HTTPError reported and "" returned, has built no
\* prompt and has made no provider call, now and in every later state.
C1_ErrorStatusStopsAtFetch ==
    \A r \in Runs :
        RemoteError(r) =>
            /\ StoppedAtFetch(r)
            /\ changes[r] = <<>>
            /\ Printed(r, "Error fetching PR changes: HTTPError")
            /\ ~PromptBuilt(r)
            /\ nCompletions[r] = 0

C1_Witness ==
    \E r \in Runs : fetchResp[r].status = 404 /\ StoppedAtFetch(r)

(***************************************************************************)
(* C2                                                                      *)
(***************************************************************************)
NoLaterStage(r) ==
    /\ StoppedAtConfig(r) => nFetch[r] = 0 /\ nCompletions[r] = 0
    /\ StoppedAtFetch(r) => ~PromptBuilt(r) /\ nCompletions[r] = 0
    /\ StoppedAtProvider(r) => final[r] = NoneVal

OneStageLine(r) ==
    Cardinality({i \in DOMAIN out[r] : out[r][i] \in StageLines}) = 1

StageMatchesCause(r) ==
    /\ StoppedAtConfig(r) <=> Cause(r) = "ConfigurationError"
    /\ StoppedAtFetch(r) <=> Cause(r) \in {"RemoteError", "TransportError", "EmptyDiff"}
    /\ StoppedAtProvider(r) <=> Cause(r) \in {"ProviderError", "EmptyResponse"}

C3_EmptyDiffDistinct ==
    \A r \in Runs :
        EmptyDiff(r) =>
            /\ StoppedAtFetch(r)
            /\ \A q \in Runs :
                   RemoteError(q) \/ TransportError(q) => changes[q] # changes[r]

\* C3 amended: a 2xx fetch with an empty body ends the run as a handled fetch
\* failure with no exception reported, and get_pr_changes returns "" for it
\* as it does for a 4xx/5xx status and for a network failure.
C3_EmptyDiffSameValue ==
    \A r \in Runs :
        /\ EmptyDiff(r) =>
               /\ StoppedAtFetch(r)
               /\ loaded = "ok"
               /\ out[r] = <<"Fetching PR changes...", "Failed to fetch PR changes">>
        /\ EmptyDiff(r) \/ RemoteError(r) \/ TransportError(r) =>
               changes[r] = <<>> /\ StoppedAtFetch(r)

C3_Witness ==
    \E r \in Runs : EmptyDiff(r) /\ RemoteError(Other(r))

(***************************************************************************)
(* C4                                                                      *)
(***************************************************************************)
\* C4 as stated: a completion without textual content ends the review call
\* without a thrown error, with a result that differs from the result of a
\* review call that met an error.
C4_EmptyResponseDistinct ==
    \A r \in Runs :
        EmptyResponse(r) =>
            /\ StoppedAtProvider(r)
            /\ \A q \in Runs : ProviderError(q) => review[q] # review[r]

\* C4 amended: a completion without textual content ends the review call
\* without a thrown error and with a falsy result: None when content is
\* None, "" when the attribute is absent or empty; "" is also the result of
\* a review call that met an error.
C4_EmptyResponseFalsy ==
    \A r \in Runs :
        /\ EmptyResponse(r) =>
               /\ StoppedAtProvider(r)
               /\ ~Printed(r, "Error in main: API key must be provided")
               /\ review[r] = IF provResp[r].content.kind = "None" THEN NoneVal
                              ELSE EmptyStr
        /\ ProviderError(r) => review[r] = EmptyStr

C4_Witness ==
    \E r \in Runs :
        /\ EmptyResponse(r) /\ provResp[r].content.kind = "absent"
        /\ ProviderError(Other(r))
        /\ provider[r] # provider[Other(r)]

(***************************************************************************)
(* C5                                                                      *)
(***************************************************************************)
ErrorLine(r) ==
    IF provResp[r].kind = "completion" THEN "Error getting review: IndexError"
    ELSE IF provResp[r].exc = "APIConnectionError"
    THEN "Error getting review: APIConnectionError"
    ELSE "Error getting review: APIStatusError"

\* C5 as stated: a review call that met an error returns a failure value
\* that carries the underlying message (two calls that met different errors
\* return different values), and the error does not reach main's handler.
C5_ProviderErrorCarriesMessage ==
    \A r \in Runs :
        ProviderError(r) =>
            /\ StoppedAtProvider(r)
            /\ \A q \in Runs :
                   ProviderError(q) /\ ErrorLine(q) # ErrorLine(r) => review[q] # review[r]

\* C5 amended: a review call that met an error (an exception of create(), or
\* an empty choices list) prints the underlying message and returns "", and
\* the error does not reach main's handler: the run stops at the provider
\* stage.
C5_ProviderErrorReturnsEmpty ==
    \A r \in Runs :
        ProviderError(r) =>
            /\ review[r] = EmptyStr
            /\ Printed(r, ErrorLine(r))
            /\ StoppedAtProvider(r)
            /\ OneStageLine(r)

C5_Witness ==
    \E r \in Runs :
        /\ provResp[r].kind = "completion" /\ provResp[r].choices = 0
        /\ provResp[Other(r)].kind = "error"
        /\ provider[r] # provider[Other(r)]
        /\ pc[r] = "done" /\ pc[Other(r)] = "done"

(***************************************************************************)
(* C6                                                                      *)
(***************************************************************************)
\* C6: with a required configuration value missing (one of the Bitbucket
\* values, the pull-request id, or the API key of the provider selected), the
\* program reports the error as a handled failure (the import does not
\* raise, and a run that has ended has ended in main's handler) before any
\* network call.
C6_MissingConfigHandled ==
    \A r \in Runs :
        /\ missing \cap (required_vars \cup {"BITBUCKET_PR_ID"}) # {} =>
               /\ loaded # "fault"
               /\ nFetch[r] = 0 /\ nCompletions[r] = 0
               /\ pc[r] = "done" => StoppedAtConfig(r)
        /\ nFetch[r] > 0 => ApiKeyVar(provider[r]) \notin missing

(***************************************************************************)
(* C7                                                                      *)
(***************************************************************************)
ReviewFiles(v) == {v.val[i].file : i \in DOMAIN v.val}

\* C7: in every state of every interleaving of two runs, the prompt a run
\* sent holds the diff that run fetched and names no other pull request, and
\* the review a run printed is the content of the answer to its own request.
C7_RunsIndependent ==
    \A r \in Runs :
        /\ PromptBuilt(r) =>
               /\ Fetched(r)
               /\ provReq[r].content = PromptHead \o fetchResp[r].body \o PromptTail
               /\ FilesIn(provReq[r].content) = {prId[r]}
        /\ Succeeded(r) =>
               /\ final[r] = provResp[r].content
               /\ ReviewFiles(final[r]) = {prId[r]}

C7_Witness ==
    \E r \in Runs :
        /\ prId[r] # prId[Other(r)]
        /\ pc[r] = "reviewing" /\ pc[Other(r)] = "done"
        /\ Succeeded(Other(r))
        /\ nFetch[r] = 1

(***************************************************************************)
(* C8                                                                      *)
(***************************************************************************)
\* C8: a run requests the diff at most once and calls the provider at most
\* once, a review call that has been answered issued exactly one request,
\* and the provider is called only after a fetch that returned a non-empty
\* diff.
C8_NoRetry ==
    \A r \in Runs :
        /\ nFetch[r] <= 1
        /\ nCompletions[r] <= 1
        /\ Fetched(r) => nFetch[r] = 1
        /\ Answered(r) => nCompletions[r] = 1
        /\ nCompletions[r] >= 1 => Fetched(r) /\ changes[r] # <<>>
        /\ Failed(r) /\ Fetched(r) => nFetch[r] = 1 /\ nCompletions[r] = IF Answered(r) THEN 1 ELSE 0

C8_Witness ==
    \E r \in Runs :
        /\ StoppedAtProvider(r) /\ nFetch[r] = 1 /\ nCompletions[r] = 1
        /\ StoppedAtFetch(Other(r)) /\ nFetch[Other(r)] = 1 /\ nCompletions[Other(r)] = 0

(***************************************************************************)
(* C9                                                                      *)
(***************************************************************************)
\* C9: the prompt sent is the rendered template with the diff text in it as
\* it is, braces included, whatever the provider, so that two runs with the
\* same diff text send the same prompt.
C9_PromptHoldsDiffVerbatim ==
    \A r \in Runs :
        PromptBuilt(r) =>
            /\ provReq[r].content = PromptHead \o changes[r] \o PromptTail
            /\ Len(provReq[r].content) = Len(PromptHead) + Len(changes[r]) + Len(PromptTail)
            /\ \A q \in Runs :
                   PromptBuilt(q) /\ changes[q] = changes[r] =>
                       provReq[q].content = provReq[r].content

C9_Witness ==
    \E r \in Runs :
        /\ PromptBuilt(r) /\ PromptBuilt(Other(r))
        /\ provider[r] # provider[Other(r)]
        /\ changes[r] = changes[Other(r)]
        /\ Len(changes[r]) >= 2 /\ changes[r][1] = "{" /\ changes[r][2] = "{"

(***************************************************************************)
(* C10                                                                     *)
(***************************************************************************)
\* line_number coerces to a positive integer
CoercesToPositiveInt(n) == n \in {"5"}
WellFormed(e) == e.complete /\ CoercesToPositiveInt(e.line_number)
RECURSIVE Retained(_)
\* the well-formed entries of a text, in its order
Retained(t) ==
    IF t = <<>> THEN <<>>
    ELSE (IF WellFormed(t[1]) THEN <<t[1]>> ELSE <<>>) \o Retained(Tail(t))

\* C10 as stated: the review handed on holds the well-formed comment entries
\* of the provider's answer, in its order, and none of the malformed ones.
C10_MalformedDropped ==
    \A r \in Runs :
        Succeeded(r) => final[r].val = Retained(provResp[r].content.val)

\* C10 amended: the review handed on is the provider's answer as it is: every
\* well-formed comment entry is retained in the answer's order, and every
\* malformed entry is retained too (nothing is dropped or counted).
C10_AnswerUnparsed ==
    \A r \in Runs :
        Succeeded(r) =>
            /\ final[r] = provResp[r].content
            /\ Retained(final[r].val) = Retained(provResp[r].content.val)
            /\ Len(final[r].val) = Len(provResp[r].content.val)

C10_Witness ==
    \E r \in Runs :
        /\ Succeeded(r)
        /\ Len(final[r].val) = 2
        /\ final[r].val[1].line_number = "abc"
        /\ WellFormed(final[r].val[2])

====
